---- MODULE Spec2Model ----
(***************************************************************************)
(* A model of the two exercises of the repository:                         *)
(*   - Assignment1/classifiers/softmax.py : softmax_loss_naive and         *)
(*     softmax_loss_vectorized, run by a caller on arrays it owns;         *)
(*   - Assignment2/daseCV/classifiers/cnn.py : ThreeLayerConvNet, its      *)
(*     constructor and its loss method.                                    *)
(*                                                                         *)
(* Arithmetic is exact: a number is a rational <<n, d>> in lowest terms    *)
(* with d > 0, so "equal up to summation order" is plain equality.         *)
(* np.exp is modelled on integer scores by an exponential of base EBase    *)
(* (exp(0) = 1, exp(a + b) = exp(a) * exp(b), strictly increasing); a loss *)
(* is the exact real number  coef * ln(arg) + add.                         *)
(***************************************************************************)
EXTENDS Integers, Sequences, FiniteSets, TLC

VARIABLES
    heap,     \* softmax.py: the caller's arrays, address -> value
    res,      \* softmax.py: the last (loss, dW) each function returned
    net,      \* cnn.py: the ThreeLayerConvNet object (params, reg, dtype)
    dicts,    \* cnn.py: the dict objects, address -> (key -> tensor)
    call      \* cnn.py: the frame of the loss call, or what it returned

vars == <<heap, res, net, dicts, call>>

(***************************************************************************)
(* Bounds of the model.                                                    *)
(***************************************************************************)
MaxN == 2            \* softmax.py: minibatch sizes 1..MaxN
EBase == 2           \* base of the modelled exponential
MaxDim == 4          \* cnn.py: image heights and widths 1..MaxDim
MaxFilterSize == 3   \* cnn.py: filter sizes 1..MaxFilterSize
MaxUnits == 2        \* cnn.py: num_filters, hidden_dim, num_classes in 1..MaxUnits
MaxBatch == 2        \* cnn.py: batch sizes 1..MaxBatch

\* (D, C) shapes of the weight matrix W
Shapes == {<<2, 2>>, <<1, 3>>}
\* entries of W and of X
WVals == {0, 1}
XVals == {0, 1}
\* regularization strengths
Regs == {0, 1}

(***************************************************************************)
(* Exact rational arithmetic.                                              *)
(***************************************************************************)
Abs(n) == IF n < 0 THEN -n ELSE n

RECURSIVE GCD(_, _)
GCD(a, b) == IF b = 0 THEN a ELSE GCD(b, a % b)

Rat(n, d) ==
    LET g == GCD(Abs(n), Abs(d))
        s == IF d < 0 THEN -1 ELSE 1
    IN  <<(s * n) \div g, (s * d) \div g>>

RInt(k) == <<k, 1>>
RAdd(a, b) == Rat(a[1] * b[2] + b[1] * a[2], a[2] * b[2])
RNeg(a) == <<-a[1], a[2]>>
RSub(a, b) == RAdd(a, RNeg(b))
RMul(a, b) == Rat(a[1] * b[1], a[2] * b[2])
RDiv(a, b) == Rat(a[1] * b[2], a[2] * b[1])
RLess(a, b) == a[1] * b[2] < b[1] * a[2]

RECURSIVE IPow(_, _)
IPow(b, k) == IF k = 0 THEN 1 ELSE b * IPow(b, k - 1)

\* r^k for an integer k (r # 0 when k < 0)
RPow(r, k) ==
    IF k >= 0 THEN <<IPow(r[1], k), IPow(r[2], k)>>
    ELSE Rat(IPow(r[2], -k), IPow(r[1], -k))

RECURSIVE RSum(_)
RSum(s) == IF s = <<>> THEN RInt(0) ELSE RAdd(Head(s), RSum(Tail(s)))

RECURSIVE RProd(_)
RProd(s) == IF s = <<>> THEN RInt(1) ELSE RMul(Head(s), RProd(Tail(s)))

RECURSIVE RMax(_)
RMax(s) ==
    IF Len(s) = 1 THEN s[1]
    ELSE LET m == RMax(Tail(s)) IN IF RLess(s[1], m) THEN m ELSE s[1]

(***************************************************************************)
(* Real numbers of the form coef * ln(arg) + add, the values a loss takes. *)
(***************************************************************************)
LZero == [coef |-> RInt(1), arg |-> RInt(1), add |-> RInt(0)]

\* np.log(p)
Log(p) == [coef |-> RInt(1), arg |-> p, add |-> RInt(0)]

\* a - b, for a and b with integer coefficients: ln(x^m) - ln(y^n) = ln(x^m / y^n)
LSub(a, b) ==
    [coef |-> RInt(1),
     arg  |-> RDiv(RPow(a.arg, a.coef[1]), RPow(b.arg, b.coef[1])),
     add  |-> RSub(a.add, b.add)]

\* a / n
LDiv(a, n) == [coef |-> RDiv(a.coef, RInt(n)), arg |-> a.arg, add |-> RDiv(a.add, RInt(n))]

\* a + r, r rational
LAddRat(a, r) == [a EXCEPT !.add = RAdd(@, r)]

\* a = b as real numbers: the rational parts agree and
\* arg_a ^ coef_a = arg_b ^ coef_b (compared after clearing denominators)
LEq(a, b) ==
    /\ a.add = b.add
    /\ IF a.coef = b.coef /\ a.coef[1] # 0 THEN a.arg = b.arg
       ELSE RPow(a.arg, a.coef[1] * b.coef[2]) = RPow(b.arg, b.coef[1] * a.coef[2])

(***************************************************************************)
(* numpy primitives on vectors (sequences) and matrices (sequences of      *)
(* rows). Each returns a new value; what is written in place is written by *)
(* the callers below, at the address the code writes to.                   *)
(***************************************************************************)
\* the sequence a function on 1..n denotes, evaluated once
AsSeq(f) == f \o <<>>

Rows(M) == Len(M)
Cols(M) == Len(M[1])

VecMap(v, Op(_)) == AsSeq([k \in 1..Len(v) |-> Op(v[k])])

\* np.zeros_like(M)
Zeros(M) == AsSeq([i \in 1..Rows(M) |-> AsSeq([k \in 1..Cols(M) |-> RInt(0)])])

\* x.dot(M) for a vector x of length Rows(M)
VecDot(x, M) ==
    AsSeq([k \in 1..Cols(M) |-> RSum(AsSeq([d \in 1..Rows(M) |-> RMul(x[d], M[d][k])]))])

\* A.dot(B)
MatDot(A, B) == AsSeq([i \in 1..Rows(A) |-> VecDot(A[i], B)])

\* A.T
Transpose(A) == AsSeq([k \in 1..Cols(A) |-> AsSeq([i \in 1..Rows(A) |-> A[i][k]])])

\* np.sum(M * M)
SumSquares(M) ==
    RSum(AsSeq([i \in 1..Rows(M) |->
            RSum(AsSeq([k \in 1..Cols(M) |-> RMul(M[i][k], M[i][k])]))]))

\* np.exp on an integer-valued score
Exp(s) == IF s[1] >= 0 THEN <<IPow(EBase, s[1]), 1>> ELSE <<1, IPow(EBase, -s[1])>>

\* v - np.max(v)
Shifted(v) == LET m == RMax(v) IN VecMap(v, LAMBDA s : RSub(s, m))

\* a faulty variant of Normalized: the exponentials are not divided by their sum
Unnormalized(v) == VecMap(v, Exp)

\* np.exp(v) / np.sum(np.exp(v))
Normalized(v) ==
    LET e == VecMap(v, Exp)
        t == RSum(e)
    IN  VecMap(e, LAMBDA x : RDiv(x, t))

\* a new array at address a, holding v
Alloc(h, a, v) == (a :> v) @@ h

(***************************************************************************)
(* softmax.py. The arguments W, X, y are the addresses "W", "X", "y" of    *)
(* the caller's arrays in the heap h; labels are 0-based as in the code,   *)
(* sequences are 1-based. A function returns [heap, loss, dW], dW being    *)
(* the address of the returned gradient.                                   *)
(***************************************************************************)
NumTrain(h) == Rows(h["X"])
NumClasses(h) == Cols(h["W"])

\* a faulty variant of ZerosLike: dW = W, the gradient aliases the argument
ZerosLikeAliased(h, a) == [addr |-> a, heap |-> h]

\* dW = np.zeros_like(W): a fresh array; yields its address and the new heap
ZerosLike(h, a) == [addr |-> "dW", heap |-> Alloc(h, "dW", Zeros(h[a]))]

\* a faulty variant of NaiveCoef: the true class is treated like the others
NaiveCoefNoTrueClass(p, j, yi) == p

\* the coefficient of X[i] added to column j of dW
NaiveCoef(p, j, yi) == IF j = yi THEN RSub(p, RInt(1)) ELSE p

\* dW[:, j] += c * x, in place on M
AddToColumn(M, j, c, x) ==
    AsSeq([d \in 1..Rows(M) |->
        AsSeq([k \in 1..Cols(M) |->
            IF k = j + 1 THEN RAdd(M[d][k], RMul(c, x[d])) ELSE M[d][k]])])

\* for j in range(num_classes): ...
RECURSIVE NaiveClasses(_, _, _, _)
NaiveClasses(h, dW, i, j) ==
    IF j >= NumClasses(h) THEN h
    ELSE NaiveClasses(
            [h EXCEPT ![dW] = AddToColumn(@, j,
                                NaiveCoef(h["softmax"][j + 1], j, h["y"][i]),
                                h["X"][i])],
            dW, i, j + 1)

\* scores = X[i].dot(W); scores -= np.max(scores)
NaiveScores(h, i) ==
    LET h1 == Alloc(h, "scores", VecDot(h["X"][i], h["W"]))
    IN  [h1 EXCEPT !["scores"] = Shifted(@)]

\* for i in range(num_train): ...   yields [heap, loss]
RECURSIVE NaiveSamples(_, _, _, _)
NaiveSamples(h, dW, i, loss) ==
    IF i > NumTrain(h) THEN [heap |-> h, loss |-> loss]
    ELSE LET h2 == NaiveScores(h, i)
             h3 == Alloc(h2, "softmax", Normalized(h2["scores"]))
             l  == LSub(loss, Log(h3["softmax"][h3["y"][i] + 1]))
         IN  NaiveSamples(NaiveClasses(h3, dW, i, 0), dW, i + 1, l)

\* a faulty variant of NaiveRegLoss: the regularization term is added before the division
NaiveRegLossBeforeAverage(loss, n, reg, W) ==
    LDiv(LAddRat(loss, RMul(RMul(<<1, 2>>, reg), SumSquares(W))), n)

\* loss /= num_train; loss += 0.5 * reg * np.sum(W * W)
NaiveRegLoss(loss, n, reg, W) ==
    LAddRat(LDiv(loss, n), RMul(RMul(<<1, 2>>, reg), SumSquares(W)))

\* M /= n; M += reg * W, in place on M
AverageAndRegularize(M, n, reg, W) ==
    AsSeq([d \in 1..Rows(M) |->
        AsSeq([k \in 1..Cols(M) |-> RAdd(RDiv(M[d][k], RInt(n)), RMul(reg, W[d][k]))])])

softmax_loss_naive(h, reg) ==
    LET z   == ZerosLike(h, "W")
        dW  == z.addr
        lp  == NaiveSamples(z.heap, dW, 1, LZero)
        n   == NumTrain(h)
        h1  == lp.heap
        h2  == [h1 EXCEPT ![dW] = AverageAndRegularize(@, n, reg, h1["W"])]
    IN  [heap |-> h2, loss |-> NaiveRegLoss(lp.loss, n, reg, h1["W"]), dW |-> dW]

\* scores = X.dot(W); scores -= np.max(scores, axis = 1).reshape(-1, 1)
VecScores(h) ==
    LET h1 == Alloc(h, "scores", MatDot(h["X"], h["W"]))
    IN  [h1 EXCEPT !["scores"] = AsSeq([i \in 1..Rows(@) |-> Shifted(@[i])])]

\* np.sum(np.log(P[range(num_train), y])): ln of the product of the entries
SumLogTrue(P, y) ==
    Log(RProd(AsSeq([i \in 1..Rows(P) |-> P[i][y[i] + 1]])))

\* loss /= num_train; loss += 0.5 * reg * np.sum(W * W)
VecRegLoss(loss, n, reg, W) ==
    LAddRat(LDiv(loss, n), RMul(RMul(<<1, 2>>, reg), SumSquares(W)))

\* P[range(num_train), y] -= 1, in place on P
SubtractOneAtTrue(P, y) ==
    AsSeq([i \in 1..Rows(P) |->
        AsSeq([k \in 1..Cols(P) |->
            IF k = y[i] + 1 THEN RSub(P[i][k], RInt(1)) ELSE P[i][k]])])

softmax_loss_vectorized(h, reg) ==
    LET z    == ZerosLike(h, "W")
        h1   == VecScores(z.heap)
        h2   == Alloc(h1, "softmax",
                      AsSeq([i \in 1..Rows(h1["scores"]) |-> Normalized(h1["scores"][i])]))
        n    == NumTrain(h)
        loss == VecRegLoss(LSub(LZero, SumLogTrue(h2["softmax"], h2["y"])), n, reg, h2["W"])
        h3   == [h2 EXCEPT !["softmax"] = SubtractOneAtTrue(@, h2["y"])]
        h4   == Alloc(h3, "grad", MatDot(Transpose(h3["X"]), h3["softmax"]))
        h5   == [h4 EXCEPT !["grad"] = AverageAndRegularize(@, n, reg, h4["W"])]
    IN  [heap |-> h5, loss |-> loss, dW |-> "grad"]

(***************************************************************************)
(* The caller of softmax.py: it owns W, X and y, calls either function     *)
(* with a regularization strength of its choice and keeps what the call    *)
(* returned. Arrays local to a call are dropped when it returns.           *)
(***************************************************************************)
Functions == {"naive", "vectorized"}
None == [none |-> TRUE]

Matrices(n, m, vals) == [1..n -> [1..m -> {RInt(v) : v \in vals}]]

Inputs ==
    UNION { { [W |-> W, X |-> X, y |-> y] :
                W \in Matrices(s[1], s[2], WVals),
                X \in Matrices(n, s[1], XVals),
                y \in [1..n -> 0..(s[2] - 1)] } :
            s \in Shapes, n \in 1..MaxN }

\* what outlives a call: the caller's arrays
Kept(h) == [W |-> h["W"], X |-> h["X"], y |-> h["y"]]

Returned(out, reg) == [reg |-> reg, loss |-> out.loss, dW |-> out.heap[out.dW]]

CallNaive(reg) ==
    \E out \in {softmax_loss_naive(heap, RInt(reg))} :
        /\ heap' = Kept(out.heap)
        /\ res' = [res EXCEPT !["naive"] = Returned(out, reg)]
        /\ UNCHANGED <<net, dicts, call>>

CallVectorized(reg) ==
    \E out \in {softmax_loss_vectorized(heap, RInt(reg))} :
        /\ heap' = Kept(out.heap)
        /\ res' = [res EXCEPT !["vectorized"] = Returned(out, reg)]
        /\ UNCHANGED <<net, dicts, call>>

Init ==
    /\ heap \in Inputs
    /\ res = [f \in Functions |-> None]
    /\ net = None
    /\ dicts = None
    /\ call = None

Next ==
    \/ \E reg \in Regs : CallNaive(reg)
    \/ \E reg \in Regs : CallVectorized(reg)

Spec == Init /\ [][Next]_vars

(***************************************************************************)
(* cnn.py. A tensor is its shape, its dtype and a symbolic value; the      *)
(* parameter and gradient mappings are dict objects in dicts, reached by   *)
(* address. The layer primitives of daseCV.layers, daseCV.fast_layers and  *)
(* daseCV.layer_utils are not part of the sources: they are modelled by    *)
(* the conventional forward / backward-with-cache contract on shapes.      *)
(***************************************************************************)
Dtypes == {"float32", "float64"}
ParamKeys == {"W1", "b1", "W2", "b2", "W3", "b3"}

Tensor(shape, dtype, val) == [shape |-> shape, dtype |-> dtype, val |-> val]

RECURSIVE Product(_)
Product(s) == IF s = <<>> THEN 1 ELSE Head(s) * Product(Tail(s))

\* the parameters __init__ stores in self.params, cast to dtype
InitParams(input_dim, num_filters, filter_size, hidden_dim, num_classes, dtype) ==
    LET C == input_dim[1]
        H == input_dim[2]
        W == input_dim[3]
    IN  [W1 |-> Tensor(<<num_filters, C, filter_size, filter_size>>, dtype, <<"randn", "W1">>),
         b1 |-> Tensor(<<num_filters>>, dtype, <<"zeros", "b1">>),
         W2 |-> Tensor(<<((H * W) \div 4) * num_filters, hidden_dim>>, dtype, <<"randn", "W2">>),
         b2 |-> Tensor(<<hidden_dim>>, dtype, <<"zeros", "b2">>),
         W3 |-> Tensor(<<hidden_dim, num_classes>>, dtype, <<"randn", "W3">>),
         b3 |-> Tensor(<<num_classes>>, dtype, <<"zeros", "b3">>)]

\* conv_param of loss: stride 1 and the padding computed from the filter size
ConvParam(filter_size) == [stride |-> 1, pad |-> (filter_size - 1) \div 2]

\* pool_param of loss
PoolParam == [pool_height |-> 2, pool_width |-> 2, stride |-> 2]

\* output extent of a convolution along one axis
ConvOutDim(n, f, conv_param) == 1 + (n + 2 * conv_param.pad - f) \div conv_param.stride

\* output extent of a max-pool along one axis
PoolOutDim(n, p, stride) == 1 + (n - p) \div stride

Raised == [raised |-> TRUE]

\* conv_relu_pool_forward(x, w, b, conv_param, pool_param): (out, cache), the
\* cache being (conv_cache, relu_cache, pool_cache); a layer with nothing to
\* output raises
conv_relu_pool_forward(x, w, b, conv_param, pool_param) ==
    LET N  == x.shape[1]
        F  == w.shape[1]
        Hc == ConvOutDim(x.shape[3], w.shape[3], conv_param)
        Wc == ConvOutDim(x.shape[4], w.shape[4], conv_param)
        Hp == PoolOutDim(Hc, pool_param.pool_height, pool_param.stride)
        Wp == PoolOutDim(Wc, pool_param.pool_width, pool_param.stride)
        a  == Tensor(<<N, F, Hc, Wc>>, x.dtype, <<"conv", x.val>>)
    IN  IF Hc <= 0 \/ Wc <= 0 \/ Hp <= 0 \/ Wp <= 0 THEN Raised
        ELSE [out   |-> Tensor(<<N, F, Hp, Wp>>, x.dtype, <<"pool", x.val>>),
              cache |-> [conv |-> [x |-> x, w |-> w, b |-> b, conv_param |-> conv_param],
                         relu |-> a,
                         pool |-> pool_param]]

\* affine_forward(x, w, b): x reshaped to (N, -1) times w, plus b; a width
\* that is not the number of rows of w raises
affine_forward(x, w, b) ==
    IF Product(Tail(x.shape)) # w.shape[1] THEN Raised
    ELSE [out   |-> Tensor(<<x.shape[1], w.shape[2]>>, x.dtype, <<"affine", x.val>>),
          cache |-> [x |-> x, w |-> w, b |-> b]]

\* relu_forward(x)
relu_forward(x) == [out |-> [x EXCEPT !.val = <<"relu", @>>], cache |-> x]

\* softmax_loss(scores, y): the loss and the gradient on the scores
softmax_loss(scores) ==
    [loss |-> <<"softmax_loss", scores.val>>,
     dx   |-> [scores EXCEPT !.val = <<"dscores", @>>]]

\* affine_backward(dout, cache): dx, dw, db shaped like x, w, b of the cache
affine_backward(dout, cache) ==
    [dx |-> [cache.x EXCEPT !.val = <<"dx", dout.val>>],
     dw |-> [cache.w EXCEPT !.val = <<"dw", dout.val>>],
     db |-> [cache.b EXCEPT !.val = <<"db", dout.val>>]]

\* relu_backward(dout, cache): dx shaped like the cached input
relu_backward(dout, cache) == [dx |-> [cache EXCEPT !.val = <<"drelu", dout.val>>]]

\* conv_relu_pool_backward(dout, cache): dx, dw, db shaped like x, w, b
conv_relu_pool_backward(dout, cache) ==
    [dx |-> [cache.conv.x EXCEPT !.val = <<"dx", dout.val>>],
     dw |-> [cache.conv.w EXCEPT !.val = <<"dw", dout.val>>],
     db |-> [cache.conv.b EXCEPT !.val = <<"db", dout.val>>]]

\* a faulty variant of NewDict: grads = self.params
NewDictAliased(d) == [addr |-> "params", dicts |-> d]

\* grads = {}: a fresh dict object; yields its address and the new store
NewDict(d) == [addr |-> "grads", dicts |-> ("grads" :> <<>>) @@ d]

\* a faulty variant of SetGrads: the bias gradient is not stored
SetGradsNoBias(g, kw, kb, dw, db) == (kw :> dw) @@ g

\* grads[kw], grads[kb] = dw, db
SetGrads(g, kw, kb, dw, db) == (kw :> dw) @@ (kb :> db) @@ g

\* a faulty variant of Backward: the two affine layers are given each other's cache
BackwardCrossed(step) ==
    CASE step = "affine_backward_3" ->
            [fn |-> "affine_backward", dout |-> "dout", cache |-> "cache2",
             gives |-> "dout3", kw |-> "W3", kb |-> "b3"]
      [] step = "relu_backward" ->
            [fn |-> "relu_backward", dout |-> "dout3", cache |-> "cache2_relu",
             gives |-> "dout2_relu", kw |-> "", kb |-> ""]
      [] step = "affine_backward_2" ->
            [fn |-> "affine_backward", dout |-> "dout2_relu", cache |-> "cache3",
             gives |-> "dout2", kw |-> "W2", kb |-> "b2"]
      [] step = "conv_relu_pool_backward" ->
            [fn |-> "conv_relu_pool_backward", dout |-> "dout2", cache |-> "cache1",
             gives |-> "dout1", kw |-> "W1", kb |-> "b1"]

\* the four backward calls of loss: the function, the variables it is given
\* (upstream gradient, cache) and the variables its results are bound to
Backward(step) ==
    CASE step = "affine_backward_3" ->
            [fn |-> "affine_backward", dout |-> "dout", cache |-> "cache3",
             gives |-> "dout3", kw |-> "W3", kb |-> "b3"]
      [] step = "relu_backward" ->
            [fn |-> "relu_backward", dout |-> "dout3", cache |-> "cache2_relu",
             gives |-> "dout2_relu", kw |-> "", kb |-> ""]
      [] step = "affine_backward_2" ->
            [fn |-> "affine_backward", dout |-> "dout2_relu", cache |-> "cache2",
             gives |-> "dout2", kw |-> "W2", kb |-> "b2"]
      [] step = "conv_relu_pool_backward" ->
            [fn |-> "conv_relu_pool_backward", dout |-> "dout2", cache |-> "cache1",
             gives |-> "dout1", kw |-> "W1", kb |-> "b1"]

\* grads[k] = grads[k] + self.reg * W, a new tensor bound to the key
AddReg(g, k, reg, W) == [g EXCEPT ![k] = [@ EXCEPT !.val = <<"plus_reg_times", @, reg, W.val>>]]

(***************************************************************************)
(* ThreeLayerConvNet: the constructed network, and loss run one sub-step   *)
(* at a time. call.P holds the locals W1 .. b3, call.env the other locals  *)
(* by name, call.log the layer calls made so far.                          *)
(***************************************************************************)
Locals(name, v, env) == (name :> v) @@ env

Forwarded(fn, cache) == [op |-> "forward", fn |-> fn, cache |-> cache]

Raise(c, at) == [pc |-> "raised", N |-> c.N, hasY |-> c.hasY, at |-> at, log |-> c.log]

Return(c, result) ==
    [pc |-> "returned", N |-> c.N, hasY |-> c.hasY, result |-> result, log |-> c.log]

\* loss(X, y): X of shape (N,) + input_dim; binds W1 .. b3, conv_param, pool_param
LossBegin(N, hasY) ==
    /\ call.pc \in {"idle", "returned", "raised"}
    /\ LET P == dicts[net.params]
       IN  call' = [pc         |-> "conv_relu_pool_forward",
                    N          |-> N,
                    hasY       |-> hasY,
                    X          |-> Tensor(<<N>> \o net.input_dim, net.dtype, <<"X">>),
                    P          |-> P,
                    conv_param |-> ConvParam(P.W1.shape[3]),
                    pool_param |-> PoolParam,
                    env        |-> <<>>,
                    grads      |-> None,
                    log        |-> <<>>]
    /\ dicts' = [a \in {net.params} |-> dicts[a]]
    /\ UNCHANGED <<heap, res, net>>

\* out1, cache1 = conv_relu_pool_forward(X, W1, b1, conv_param, pool_param)
ConvReluPoolForward ==
    /\ call.pc = "conv_relu_pool_forward"
    /\ \E r \in {conv_relu_pool_forward(call.X, call.P.W1, call.P.b1,
                                        call.conv_param, call.pool_param)} :
          call' = IF r = Raised THEN Raise(call, call.pc)
                  ELSE [call EXCEPT !.pc = "affine_forward_2",
                                    !.env = Locals("out1", r.out, Locals("cache1", r.cache, @)),
                                    !.log = Append(@, Forwarded("conv_relu_pool_forward", "cache1"))]
    /\ UNCHANGED <<heap, res, net, dicts>>

\* out2, cache2 = affine_forward(out1, W2, b2)
AffineForward2 ==
    /\ call.pc = "affine_forward_2"
    /\ \E r \in {affine_forward(call.env["out1"], call.P.W2, call.P.b2)} :
          call' = IF r = Raised THEN Raise(call, call.pc)
                  ELSE [call EXCEPT !.pc = "relu_forward",
                                    !.env = Locals("out2", r.out, Locals("cache2", r.cache, @)),
                                    !.log = Append(@, Forwarded("affine_forward", "cache2"))]
    /\ UNCHANGED <<heap, res, net, dicts>>

\* out2_relu, cache2_relu = relu_forward(out2)
ReluForward ==
    /\ call.pc = "relu_forward"
    /\ \E r \in {relu_forward(call.env["out2"])} :
          call' = [call EXCEPT !.pc = "affine_forward_3",
                               !.env = Locals("out2_relu", r.out, Locals("cache2_relu", r.cache, @)),
                               !.log = Append(@, Forwarded("relu_forward", "cache2_relu"))]
    /\ UNCHANGED <<heap, res, net, dicts>>

\* scores, cache3 = affine_forward(out2_relu, W3, b3)
AffineForward3 ==
    /\ call.pc = "affine_forward_3"
    /\ \E r \in {affine_forward(call.env["out2_relu"], call.P.W3, call.P.b3)} :
          call' = IF r = Raised THEN Raise(call, call.pc)
                  ELSE [call EXCEPT !.pc = "check_y",
                                    !.env = Locals("scores", r.out, Locals("cache3", r.cache, @)),
                                    !.log = Append(@, Forwarded("affine_forward", "cache3"))]
    /\ UNCHANGED <<heap, res, net, dicts>>

\* if y is None: return scores
ReturnScores ==
    /\ call.pc = "check_y"
    /\ ~call.hasY
    /\ call' = Return(call, [scores |-> call.env["scores"]])
    /\ UNCHANGED <<heap, res, net, dicts>>

\* loss, grads = 0, {}; loss, dout = softmax_loss(scores, y); loss += reg term
SoftmaxLoss ==
    /\ call.pc = "check_y"
    /\ call.hasY
    /\ \E nd \in {NewDict(dicts)}, sl \in {softmax_loss(call.env["scores"])} :
          /\ dicts' = nd.dicts
          /\ call' = [call EXCEPT
                        !.pc = "affine_backward_3",
                        !.grads = nd.addr,
                        !.env = Locals("dout", sl.dx,
                                  Locals("loss", <<"plus_half_reg_sumsq", sl.loss, net.reg,
                                                   call.P.W1.val, call.P.W2.val, call.P.W3.val>>, @))]
    /\ UNCHANGED <<heap, res, net>>

\* the layer function a backward call names, applied
ApplyBackward(fn, dout, cache) ==
    CASE fn = "affine_backward" -> affine_backward(dout, cache)
      [] fn = "relu_backward" -> relu_backward(dout, cache)
      [] fn = "conv_relu_pool_backward" -> conv_relu_pool_backward(dout, cache)

\* one backward line of loss: dx[, grads[kw], grads[kb]] = fn(dout, cache)
BackwardStep(step, next) ==
    /\ call.pc = step
    /\ \E b \in {Backward(step)} :
       \E r \in {ApplyBackward(b.fn, call.env[b.dout], call.env[b.cache])} :
          /\ call' = [call EXCEPT
                        !.pc = next,
                        !.env = Locals(b.gives, r.dx, @),
                        !.log = Append(@, [op |-> "backward", fn |-> b.fn, cache |-> b.cache,
                                           dout |-> b.dout, gives |-> b.gives])]
          /\ dicts' = IF b.kw = "" THEN dicts
                      ELSE [dicts EXCEPT ![call.grads] = SetGrads(@, b.kw, b.kb, r.dw, r.db)]
    /\ UNCHANGED <<heap, res, net>>

AffineBackward3 == BackwardStep("affine_backward_3", "relu_backward")
ReluBackward == BackwardStep("relu_backward", "affine_backward_2")
AffineBackward2 == BackwardStep("affine_backward_2", "conv_relu_pool_backward")
ConvReluPoolBackward == BackwardStep("conv_relu_pool_backward", "regularize")

\* grads['W3'] = grads['W3'] + self.reg * W3, likewise W2 and W1; return loss, grads
RegularizeReturn ==
    /\ call.pc = "regularize"
    /\ dicts' = [dicts EXCEPT ![call.grads] =
                    AddReg(AddReg(AddReg(@, "W3", net.reg, call.P.W3),
                                  "W2", net.reg, call.P.W2),
                           "W1", net.reg, call.P.W1)]
    /\ call' = Return(call, [loss |-> call.env["loss"], grads |-> call.grads])
    /\ UNCHANGED <<heap, res, net>>

\* ThreeLayerConvNet(input_dim, num_filters, filter_size, hidden_dim, num_classes, reg, dtype)
InitNet ==
    \E C \in 1..MaxUnits, H \in 1..MaxDim, W \in 1..MaxDim,
       num_filters \in 1..MaxUnits, filter_size \in 1..MaxFilterSize,
       hidden_dim \in 1..MaxUnits, num_classes \in 1..MaxUnits,
       reg \in Regs, dtype \in Dtypes :
        /\ net = [params |-> "params", reg |-> reg, dtype |-> dtype, input_dim |-> <<C, H, W>>]
        /\ dicts = [params |-> InitParams(<<C, H, W>>, num_filters, filter_size,
                                          hidden_dim, num_classes, dtype)]
        /\ call = [pc |-> "idle"]
        /\ heap = None
        /\ res = None

NextNet ==
    \/ \E N \in 1..MaxBatch, hasY \in BOOLEAN : LossBegin(N, hasY)
    \/ ConvReluPoolForward
    \/ AffineForward2
    \/ ReluForward
    \/ AffineForward3
    \/ ReturnScores
    \/ SoftmaxLoss
    \/ AffineBackward3
    \/ ReluBackward
    \/ AffineBackward2
    \/ ConvReluPoolBackward
    \/ RegularizeReturn

SpecNet == InitNet /\ [][NextNet]_vars

(***************************************************************************)
(* Claims about softmax.py, checked under Spec.                            *)
(***************************************************************************)
Called(f) == res[f] # None
IsZero(M) == M = Zeros(M)

\* C1: called on the same W, X, y and reg, softmax_loss_naive and
\* softmax_loss_vectorized return the same loss and the same gradient,
\* entry by entry.
C1_NaiveEqualsVectorized ==
    (Called("naive") /\ Called("vectorized") /\ res["naive"].reg = res["vectorized"].reg)
        => /\ LEq(res["naive"].loss, res["vectorized"].loss)
           /\ res["naive"].dW = res["vectorized"].dW

\* C1 witness: both functions have returned for a batch of two samples or more,
\* a nonzero W and a positive reg, with a nonzero gradient.
C1_Witness ==
    /\ Called("naive") /\ Called("vectorized")
    /\ res["naive"].reg = res["vectorized"].reg /\ res["naive"].reg > 0
    /\ Rows(heap["X"]) >= 2 /\ ~IsZero(heap["W"]) /\ ~IsZero(heap["X"])
    /\ ~IsZero(res["naive"].dW)
    /\ heap["y"][1] # heap["y"][2]

\* the gradient of the unregularized loss at W = 0:
\* (1/N) * sum_i X[i][d] * (1/C - [y[i] = j])
UniformGradient(X, y, C) ==
    AsSeq([d \in 1..Cols(X) |->
        AsSeq([k \in 1..C |->
            RDiv(RSum(AsSeq([i \in 1..Rows(X) |->
                    RMul(X[i][d],
                         RSub(Rat(1, C), IF y[i] + 1 = k THEN RInt(1) ELSE RInt(0)))])),
                 RInt(Rows(X)))])])

\* C2 as stated: with W = 0 and reg = 0 both functions return loss ln(C) and
\* a zero gradient.
C2_ZeroWeightsZeroGradient ==
    \A f \in Functions :
        (Called(f) /\ res[f].reg = 0 /\ IsZero(heap["W"]))
            => /\ LEq(res[f].loss, Log(RInt(NumClasses(heap))))
               /\ IsZero(res[f].dW)

\* C2 as amended: with W = 0 and reg = 0 both functions return loss ln(C) and
\* the gradient (1/N) * X^T (U - Y), U the uniform distribution 1/C and Y the
\* one-hot labels; it is zero only for batches where that sum cancels.
C2_ZeroWeightsUniform ==
    \A f \in Functions :
        (Called(f) /\ res[f].reg = 0 /\ IsZero(heap["W"]))
            => /\ LEq(res[f].loss, Log(RInt(NumClasses(heap))))
               /\ res[f].dW = UniformGradient(heap["X"], heap["y"], NumClasses(heap))

\* C2 witness: both functions have returned for W = 0, reg = 0 and a batch
\* with a nonzero sample, and the gradient is not zero.
C2_Witness ==
    /\ IsZero(heap["W"]) /\ ~IsZero(heap["X"])
    /\ \A f \in Functions : Called(f) /\ res[f].reg = 0 /\ ~IsZero(res[f].dW)

\* C3: for either function, the loss returned with reg = 0 equals the loss
\* returned with reg = r minus 0.5 * r * sum(W * W): a call with reg = 0
\* followed by a call with any reg on the same W, X, y.
C3_RegularizationIsAdditive ==
    [][\A f \in Functions :
          (Called(f) /\ res[f].reg = 0 /\ res'[f] # None)
              => LEq(res[f].loss,
                     LAddRat(res'[f].loss,
                             RNeg(RMul(Rat(res'[f].reg, 2), SumSquares(heap["W"])))))]_vars

\* C3 witness: both functions have returned with a positive reg for a nonzero W
\* and a batch of two samples or more.
C3_Witness ==
    /\ \A f \in Functions : Called(f) /\ res[f].reg > 0
    /\ ~IsZero(heap["W"]) /\ Rows(heap["X"]) >= 2

\* C5: a call to either function leaves the caller's W, X and y unchanged.
C5_ArgumentsUnchanged == [][heap' = heap]_vars

\* C5 witness: both functions have returned a nonzero gradient, one they
\* accumulated and scaled in place.
C5_Witness ==
    /\ \A f \in Functions : Called(f) /\ ~IsZero(res[f].dW)
    /\ Rows(heap["X"]) >= 2

(***************************************************************************)
(* Claims about cnn.py, checked under SpecNet.                             *)
(***************************************************************************)
InCall == call.pc \notin {"idle", "returned", "raised"}
Has(name) == InCall /\ name \in DOMAIN call.env
NumOutputs == dicts[net.params].b3.shape[1]

\* C4: loss(X) without labels completes the forward pipeline and returns
\* scores of shape (N, num_classes), for every construction and batch.
C4_InferenceReturnsScores ==
    /\ ~(call.pc = "raised" /\ ~call.hasY)
    /\ (call.pc = "returned" /\ ~call.hasY)
          => call.result.scores.shape = <<call.N, NumOutputs>>

\* C8: the number of rows of W2 set by the constructor equals the flattened
\* width of the conv-relu-pool output that loss feeds to the hidden affine layer.
C8_HiddenWidthMatches ==
    call.pc = "affine_forward_2"
        => call.P.W2.shape[1] = Product(Tail(call.env["out1"].shape))

\* C9: the convolution of loss (stride 1, pad (filter_size - 1) // 2) has an
\* output of the height and width of its input.
C9_ConvPreservesSize ==
    Has("cache1")
        => /\ call.env["cache1"].relu.shape[3] = call.X.shape[3]
           /\ call.env["cache1"].relu.shape[4] = call.X.shape[4]

\* C6: no step of any loss call, inference or training, changes the parameter
\* mapping (keys and tensors), reg or dtype of the network.
C6_ParamsUnchanged ==
    [][/\ net' = net
       /\ dicts'[net.params] = dicts[net.params]
       /\ DOMAIN dicts'[net.params] = ParamKeys]_vars

\* C6 witness: a training call of a regularized network has returned its
\* gradients, after the six gradients and the three reg terms were written.
C6_Witness ==
    /\ call.pc = "returned" /\ call.hasY /\ net.reg > 0
    /\ DOMAIN dicts[call.result.grads] = ParamKeys

\* C7: a training call returns (loss, grads) with the keys of grads exactly the
\* keys of the parameter mapping; an inference call returns the scores alone.
C7_GradKeysAreParamKeys ==
    call.pc = "returned"
        => IF call.hasY
           THEN /\ DOMAIN call.result = {"loss", "grads"}
                /\ DOMAIN dicts[call.result.grads] = DOMAIN dicts[net.params]
                /\ DOMAIN dicts[call.result.grads] = ParamKeys
           ELSE DOMAIN call.result = {"scores"}

\* C7 witness: a training call has returned.
C7_Witness == call.pc = "returned" /\ call.hasY /\ Len(call.log) = 8

\* the forward and the backward layer calls of the log, in order
ForwardCalls(log) == SelectSeq(log, LAMBDA e : e.op = "forward")
BackwardCalls(log) == SelectSeq(log, LAMBDA e : e.op = "backward")

\* the backward function that consumes the cache of a forward function
Matching(fn) ==
    CASE fn = "conv_relu_pool_forward" -> "conv_relu_pool_backward"
      [] fn = "affine_forward" -> "affine_backward"
      [] fn = "relu_forward" -> "relu_backward"

\* the k-th backward call consumes the cache of the k-th forward call counted
\* from the last, with the matching function, and is given the gradient the
\* call before it produced (the softmax gradient dout for the first)
InReverse(fw, bw) ==
    /\ Len(bw) <= Len(fw)
    /\ \A k \in 1..Len(bw) :
          /\ bw[k].cache = fw[Len(fw) + 1 - k].cache
          /\ bw[k].fn = Matching(fw[Len(fw) + 1 - k].fn)
          /\ bw[k].dout = IF k = 1 THEN "dout" ELSE bw[k - 1].gives

====
